---- MODULE Spec2Model ----
(***************************************************************************)
(* Feature assembly and similarity ranking                                 *)
(* (ml_models/data_preprocessing.py), the two training runs                *)
(* (ml_models/train_performance_models.py,                                 *)
(* ml_models/train_recommendation_models.py), predict_performance, and    *)
(* on their own normalize_features and the recommender's parameter export. *)
(*                                                                         *)
(* Numbers.  grade_point and current_gpa are kept in tenths (2.0 is 20,    *)
(* 2.5 is 25).  A mean is the reduced fraction <<numerator, denominator>>  *)
(* of tenths.  Every genuine number of the tables is >= 0; NaN is -1 in a  *)
(* column of numbers, <<0, 0>> in a column of means and "NaN" in a column  *)
(* of ids.  A similarity_score is kept in hundredths.                      *)
(*                                                                         *)
(* Tables.  A pandas DataFrame built from the rows of a table is the       *)
(* sequence of its rows.  The DataFrame of an empty table has no columns,  *)
(* so selecting or joining on one of its columns raises KeyError.          *)
(***************************************************************************)
EXTENDS Integers, Sequences, FiniteSets, TLC

VARIABLES
    data,       \* what the operation is given: the five entity collections
                \* as fetched (fetch_all_data), the frame passed to
                \* normalize_features, the arguments of the export
    call,       \* the operation last called, with its argument
    ret,        \* what that call returned or raised
    task,       \* trainer: "performance" or "recommendation"
    as_main,    \* trainer: the module runs as a script (__main__)
    run,        \* trainer: number of train_models calls so far
    pc,         \* trainer: position inside train_models
    matrix,     \* trainer: local, the assembled rows and labels
    split,      \* trainer: local, the train/test partition (per-class counts)
    step,       \* trainer: local, index of the family / file handled next
    metrics,    \* trainer: local, metric names computed per family
    scaler,     \* trainer: self.scaler
    slots,      \* trainer: the model slots of self
    files,      \* disk: the .pkl files of the task
    snapshot,   \* disk: the parameter JSON of the task
    result,     \* trainer: what the last train_models call returned
    served,     \* serving: the model slots and scaler of the predictor that serves
    answers,    \* serving: the outcome of each predict_performance call so far
    seeded,     \* the label the generator seeded with 42 favours at a tie
    previous    \* history: input and results of the last run that exported

vars == <<data, call, ret, task, as_main, run, pc, matrix, split, step,
          metrics, scaler, slots, files, snapshot, result, served, answers,
          seeded, previous>>

asmVars == <<call, ret>>
serveVars == <<served, answers>>
histVars == <<seeded, previous>>
trainVars == <<task, as_main, run, pc, matrix, split, step, metrics, scaler,
               slots, files, snapshot, result, serveVars, histVars>>

----------------------------------------------------------------------------
(* Bounds of the model *)

MaxGrades == 3
MaxRows == 12
MaxLow == 3
MaxRuns == 2
MaxCalls == 2

----------------------------------------------------------------------------
(* Generic helpers *)

NaN == 0 - 1
NaNMean == <<0, 0>>
NaNId == "NaN"

NoCall == [op |-> "none"]
NoReturn == [ok |-> FALSE, error |-> "not called"]

Raise(e) == [ok |-> FALSE, error |-> e]
Return(v) == [ok |-> TRUE, value |-> v]

RECURSIVE GCD(_, _)
GCD(a, b) == IF b = 0 THEN a ELSE GCD(b, a % b)

Frac(n, d) == LET g == GCD(n, d) IN <<n \div g, d \div g>>

RECURSIVE SumSeq(_)
SumSeq(s) == IF s = <<>> THEN 0 ELSE Head(s) + SumSeq(Tail(s))

\* Series.mean() of a non-empty column
Mean(s) == Frac(SumSeq(s), Len(s))

Column(rows, f(_)) == [i \in 1..Len(rows) |-> f(rows[i])]

IsInjective(s) == \A i, j \in 1..Len(s) : s[i] = s[j] => i = j

Abs(x) == IF x < 0 THEN 0 - x ELSE x

Perms(n) == {f \in [1..n -> 1..n] : \A i, j \in 1..n : f[i] = f[j] => i = j}

SeqsUpTo(S, n) == UNION {[1..k -> S] : k \in 0..n}

----------------------------------------------------------------------------
(* Entity collections the operations are called with *)

StudentA == [id |-> "s1", current_gpa |-> 35, has_disability |-> TRUE, major |-> "CS"]
StudentADup == [id |-> "s1", current_gpa |-> 20, has_disability |-> FALSE, major |-> "Math"]
StudentB == [id |-> "s2", current_gpa |-> 30, has_disability |-> FALSE, major |-> "CS"]

CourseA == [id |-> "c1", difficulty_level |-> 1, credits |-> 3]
CourseADup == [id |-> "c1", difficulty_level |-> 3, credits |-> 2]
CourseB == [id |-> "c2", difficulty_level |-> 2, credits |-> 4]

Grade(s, c, g, a, t) ==
    [student_id |-> s, course_id |-> c, grade_point |-> g,
     attendance_rate |-> a, semester |-> t]

\* "sX" and "cX" are ids no Student / Course record carries
StudentIds == {"s1", "s2", "sX"}

StudentInputs ==
    { <<>>, <<StudentA>>, <<StudentA, StudentB>>, <<StudentB, StudentA>>,
      <<StudentA, StudentADup>>, <<StudentADup, StudentB, StudentA>> }

CourseInputs ==
    { <<>>, <<CourseA>>, <<CourseA, CourseB>>, <<CourseB, CourseA>>,
      <<CourseA, CourseADup>> }

GradePool ==
    { Grade("s1", "c1", 15, 80, 1), Grade("s1", "c2", 30, 90, 1),
      Grade("s2", "c1", 25, 85, 1), Grade("s2", "c2", 20, 95, 1),
      Grade("sX", "c1", 30, 75, 1), Grade("s1", "cX", 20, 100, 1) }

\* at most one grade record per (student, course, semester): no row twice
GradeInputs == {g \in SeqsUpTo(GradePool, MaxGrades) : IsInjective(g)}

PreferenceInputs == { <<>>, <<[student_id |-> "s1"]>> }

DisabilityInputs == { <<>>, <<[student_id |-> "s1"]>> }

Entities(st, co, gr, pr, di) ==
    [students |-> st, courses |-> co, grades |-> gr,
     preferences |-> pr, disabilities |-> di]

AssemblerInputs ==
    { Entities(st, co, gr, pr, di) :
        st \in StudentInputs, co \in CourseInputs, gr \in GradeInputs,
        pr \in PreferenceInputs, di \in DisabilityInputs }

----------------------------------------------------------------------------
(* pandas operations used by the assembler *)

\* DataFrame.merge(right, left_on=..., right_on='id'), how='inner': the rows
\* keep the order of the left frame; a left row with several matching right
\* rows is repeated once per match, one with none is dropped.
RECURSIVE MergeStudents(_, _)
MergeStudents(left, students) ==
    IF left = <<>> THEN <<>>
    ELSE LET g == Head(left)
             m == SelectSeq(students, LAMBDA s : s.id = g.student_id)
         IN  [i \in 1..Len(m) |-> [grade |-> g, student |-> m[i]]]
             \o MergeStudents(Tail(left), students)

RECURSIVE MergeCourses(_, _)
MergeCourses(left, courses) ==
    IF left = <<>> THEN <<>>
    ELSE LET row == Head(left)
             m == SelectSeq(courses, LAMBDA c : c.id = row.grade.course_id)
         IN  [i \in 1..Len(m) |->
                 [grade |-> row.grade, student |-> row.student, course |-> m[i]]]
             \o MergeCourses(Tail(left), courses)

\* int(True) = 1, int(False) = 0
AsInt(b) == IF b THEN 1 ELSE 0

\* grades_df.merge(students_df, ...).merge(courses_df, ...); joining on a
\* column of a frame without columns raises KeyError
Merged(d) ==
    IF d.grades = <<>> \/ d.students = <<>> \/ d.courses = <<>>
    THEN Raise("KeyError")
    ELSE Return(MergeCourses(MergeStudents(d.grades, d.students), d.courses))

\* a wrong variant: the column taken from the presence of a profile
HasDisabilityFromProfile(d, row) ==
    AsInt(\E i \in 1..Len(d.disabilities) :
              d.disabilities[i].student_id = row.student.id)

\* merged['has_disability'].astype(int): the Student record's flag; nothing
\* of data['disabilities'] is read
HasDisability(d, row) == AsInt(row.student.has_disability)

PerformanceFeatures(d, row) ==
    [current_gpa |-> row.student.current_gpa,
     course_difficulty |-> row.course.difficulty_level,
     attendance_rate |-> row.grade.attendance_rate,
     has_disability |-> HasDisability(d, row),
     credits |-> row.course.credits]

GradePoint(row) == row.grade.grade_point

GradePointOf(g) == g.grade_point

RiskThreshold == 20

\* a wrong variant: 2.0 itself counted as at risk
AtRiskInclusive(row) == AsInt(row.grade.grade_point <= RiskThreshold)

AtRisk(row) == AsInt(row.grade.grade_point < RiskThreshold)

prepare_performance_data(d) ==
    LET merged == Merged(d)
    IN  IF ~merged.ok THEN merged
        ELSE Return([features |-> [i \in 1..Len(merged.value) |->
                                      PerformanceFeatures(d, merged.value[i])],
                     target |-> Column(merged.value, GradePoint),
                     at_risk |-> Column(merged.value, AtRisk)])

SuccessThreshold == 25

\* grades_df.groupby('student_id')['grade_point'].transform('mean'): one value
\* per row of grades_df, in the order and under the index of grades_df
StudentAvgGrades(grades) ==
    [i \in 1..Len(grades) |->
        Mean(Column(SelectSeq(grades,
                              LAMBDA g : g.student_id = grades[i].student_id),
                    GradePointOf))]

\* pd.DataFrame({...}) of Series aligns them on their index labels.  merged
\* carries the fresh index 0..m-1 of the join, student_avg_grades the index
\* 0..n-1 of grades_df: the frame has max(m, n) rows, label i takes the i-th
\* row of the join and the i-th value of student_avg_grades, and a label one
\* of them lacks holds NaN there.
TrainingRow(merged, avgs, i) ==
    LET has == i <= Len(merged)
        row == merged[i]
    IN  [student_id |-> IF has THEN row.grade.student_id ELSE NaNId,
         course_id |-> IF has THEN row.grade.course_id ELSE NaNId,
         student_gpa |-> IF has THEN row.student.current_gpa ELSE NaN,
         course_difficulty |-> IF has THEN row.course.difficulty_level ELSE NaN,
         has_disability |-> IF has THEN AsInt(row.student.has_disability) ELSE NaN,
         credits |-> IF has THEN row.course.credits ELSE NaN,
         avg_previous_grade |-> IF i <= Len(avgs) THEN avgs[i] ELSE NaNMean,
         actual_grade |-> IF has THEN row.grade.grade_point ELSE NaN,
         success |-> IF has THEN AsInt(row.grade.grade_point >= SuccessThreshold)
                     ELSE NaN]

Max(a, b) == IF a >= b THEN a ELSE b

prepare_training_data(d) ==
    LET merged == Merged(d)
        avgs == StudentAvgGrades(d.grades)
    IN  IF ~merged.ok THEN merged
        ELSE Return([i \in 1..Max(Len(merged.value), Len(avgs)) |->
                        TrainingRow(merged.value, avgs, i)])

\* a wrong variant: the cold-start default 0.0
DefaultAvgGradeZero == <<0, 1>>

\* the cold-start default 2.5
DefaultAvgGrade == <<25, 1>>

\* a wrong variant: the last matching record
LastMatch(matching) == matching[Len(matching)]

\* .iloc[0]
FirstMatch(matching) == matching[1]

CandidateRow(student, course, avg_grade) ==
    [course_id |-> course.id,
     student_gpa |-> student.current_gpa,
     avg_previous_grade |-> avg_grade,
     course_difficulty |-> course.difficulty_level,
     has_disability |-> AsInt(student.has_disability),
     credits |-> course.credits]

prepare_recommendation_data(d, student_id) ==
    LET matching == SelectSeq(d.students, LAMBDA s : s.id = student_id)
        student == FirstMatch(matching)
        student_grades == SelectSeq(d.grades, LAMBDA g : g.student_id = student_id)
        courses_taken == {student_grades[i].course_id : i \in 1..Len(student_grades)}
        available_courses == SelectSeq(d.courses, LAMBDA c : c.id \notin courses_taken)
        avg_grade == IF Len(student_grades) > 0
                     THEN Mean(Column(student_grades, GradePointOf))
                     ELSE DefaultAvgGrade
    IN  IF d.students = <<>> THEN Raise("KeyError")
        ELSE IF matching = <<>> THEN Raise("IndexError")
        ELSE IF d.grades = <<>> \/ d.preferences = <<>> \/ d.courses = <<>>
        THEN Raise("KeyError")
        ELSE Return([i \in 1..Len(available_courses) |->
                        CandidateRow(student, available_courses[i], avg_grade)])

\* the score with the signed GPA difference in place of abs(...)
SimilarityScoreSigned(target, student) ==
    (50 - (target.current_gpa - student.current_gpa)) * 4
    + (IF target.major = student.major THEN 30 ELSE 0)
    + (IF target.has_disability = student.has_disability THEN 30 ELSE 0)

\* similarity_score in hundredths:
\* (5 - gpa_diff) * 0.4 + major_match * 0.3 + disability_match * 0.3
SimilarityScore(target, student) ==
    (50 - Abs(target.current_gpa - student.current_gpa)) * 4
    + (IF target.major = student.major THEN 30 ELSE 0)
    + (IF target.has_disability = student.has_disability THEN 30 ELSE 0)

SimilarEntry(target, student, student_grades) ==
    [student_id |-> student.id,
     similarity_score |-> SimilarityScore(target, student),
     avg_grade |-> Mean(Column(student_grades, GradePointOf))]

\* sort_values('similarity_score', ascending=False) with the default
\* kind='quicksort', which does not promise an order among equal scores
SortedByScore(entries) ==
    { [i \in 1..Len(entries) |-> entries[f[i]]] :
        f \in { g \in Perms(Len(entries)) :
                  \A i \in 1..(Len(entries) - 1) :
                      entries[g[i]].similarity_score >= entries[g[i + 1]].similarity_score } }

\* the outcomes of calculate_similarity_features(student_id, data)
calculate_similarity_features(d, student_id) ==
    LET matching == SelectSeq(d.students, LAMBDA s : s.id = student_id)
        target_student == FirstMatch(matching)
        others == SelectSeq(d.students,
                    LAMBDA s : /\ s.id # student_id
                               /\ \E i \in 1..Len(d.grades) : d.grades[i].student_id = s.id)
        similar_students ==
            [i \in 1..Len(others) |->
                SimilarEntry(target_student, others[i],
                             SelectSeq(d.grades, LAMBDA g : g.student_id = others[i].id))]
    IN  IF d.students = <<>> THEN {Raise("KeyError")}
        ELSE IF matching = <<>> THEN {Raise("IndexError")}
        ELSE IF d.grades = <<>> THEN {Raise("KeyError")}
        ELSE IF similar_students = <<>> THEN {Raise("KeyError")}
        ELSE {Return(r) : r \in SortedByScore(similar_students)}

----------------------------------------------------------------------------
(* The trainers: PerformancePredictor and CourseRecommender *)

MinSamples == 10

Tasks == {"performance", "recommendation"}

\* the model families in the order train_models fits them
Families(t) ==
    IF t = "performance"
    THEN <<"logistic_regression", "random_forest_classifier",
           "gradient_boosting_classifier", "random_forest_regressor">>
    ELSE <<"knn", "decision_tree", "random_forest", "adaboost",
           "nearest_neighbors">>

FamilySet(t) == {Families(t)[i] : i \in 1..Len(Families(t))}

\* families with predict / predict_proba / roc_auc_score in their block
Classifiers ==
    {"logistic_regression", "random_forest_classifier",
     "gradient_boosting_classifier", "knn", "decision_tree", "random_forest",
     "adaboost"}

\* families whose block calls cross_val_score(..., cv=5, scoring='f1')
CrossValidated == {"logistic_regression", "random_forest_classifier", "knn", "decision_tree"}

\* estimators whose fit rejects a single-class label vector
NeedsTwoClasses == {"logistic_regression", "gradient_boosting_classifier"}

MetricsOf(f) ==
    IF f = "random_forest_regressor" THEN {"rmse", "mae", "r2"}
    ELSE IF f = "nearest_neighbors" THEN {}
    ELSE IF f \in {"knn", "decision_tree"} THEN {"accuracy", "f1", "roc_auc", "cv_f1"}
    ELSE IF f \in {"random_forest", "adaboost"} THEN {"accuracy", "f1", "roc_auc"}
    ELSE IF f = "gradient_boosting_classifier"
         THEN {"accuracy", "precision", "recall", "f1", "roc_auc"}
    ELSE {"accuracy", "precision", "recall", "f1", "roc_auc", "cv_f1"}

\* the files _save_models writes, in its order: one per slot, then the scaler
SaveOrder(t) == Families(t) \o <<"scaler">>

FileNames(t) == {SaveOrder(t)[i] : i \in 1..Len(SaveOrder(t))}

\* the keys _export_model_parameters writes
SnapshotKeys(t) ==
    IF t = "performance"
    THEN {"metadata", "logistic_regression", "random_forest_classifier",
          "gradient_boosting_classifier", "random_forest_regressor"}
    ELSE {"metadata", "knn", "decision_tree", "random_forest", "adaboost"}

\* the feature names handed to _export_model_parameters
FeatureNames(t) ==
    IF t = "performance"
    THEN <<"current_gpa", "course_difficulty", "attendance_rate",
           "has_disability", "credits">>
    ELSE <<"GPA", "Difficulty", "Disability", "Credits", "Avg Grade">>

\* rows: the rows an estimator or scaler was fitted on
NoObject == [state |-> "None", run |-> 0, rows |-> "none"]
NoFile == [state |-> "absent", content |-> NoObject]
NoSnapshot ==
    [state |-> "absent", run |-> 0, keys |-> {}, training_samples |-> 0, trained_at |-> 0]
NoData == Entities(<<>>, <<>>, <<>>, <<>>, <<>>)
NoMatrix == [state |-> "none"]
NoSplit == [state |-> "none"]
NoResult == [kind |-> "not called"]

\* __init__: every model slot None, self.scaler a fresh StandardScaler()
TrainerConstructed ==
    /\ run = 0
    /\ pc = "Idle"
    /\ matrix = NoMatrix
    /\ split = NoSplit
    /\ step = 0
    /\ metrics = [f \in FamilySet(task) |-> {}]
    /\ scaler = [state |-> "unfitted", run |-> 0, rows |-> "none"]
    /\ slots = [f \in FamilySet(task) |-> NoObject]
    /\ files = [n \in FileNames(task) |-> NoFile]
    /\ snapshot = NoSnapshot
    /\ result = NoResult
    /\ served = [n \in FileNames(task) |->
                   IF n = "scaler" THEN [state |-> "unfitted", run |-> 0, rows |-> "none"]
                   ELSE NoObject]
    /\ answers = <<>>
    /\ previous = [state |-> "none"]

\* the rows the store holds when a run fetches them: unresolved Grade rows
\* (student "sX") first, then n rows of the students s1, s2 in the courses
\* c1, c2, the first k of them with grade_point 1.5, the others with 3.0
TrainGrades(n, k, unresolved) ==
    (IF unresolved THEN <<Grade("sX", "c1", 30, 75, 0)>> ELSE <<>>)
    \o [i \in 1..n |->
          Grade(IF i % 2 = 1 THEN "s1" ELSE "s2",
                IF (i \div 2) % 2 = 0 THEN "c1" ELSE "c2",
                IF i <= k THEN 15 ELSE 30, 90, i)]

TrainEntities(n, k, u) ==
    Entities(<<StudentA, StudentB>>, <<CourseA, CourseB>>,
             TrainGrades(n, k, u), <<[student_id |-> "s1"]>>, <<>>)

TrainInputs ==
    {NoData} \cup
    { TrainEntities(n, k, u) :
        n \in (MinSamples - 2)..MaxRows, k \in 0..MaxLow, u \in BOOLEAN }

\* the stores of the runs that write the files a serving predictor loads:
\* too few rows or just enough, every Grade row resolving
ServeInputs ==
    {NoData} \cup
    { TrainEntities(n, k, FALSE) : n \in {MinSamples - 2, MinSamples}, k \in 0..MaxLow }

\* line 31 / line 42 of the two train_models: the assembled frame
Assembled(t, d) ==
    IF t = "performance" THEN prepare_performance_data(d)
    ELSE prepare_training_data(d)

\* len(features) / len(training_data)
RowCount(t, m) == IF t = "performance" THEN Len(m.features) ELSE Len(m)

\* the stratification labels: target_at_risk / training_data['success']
Labels(t, m) ==
    IF t = "performance" THEN m.at_risk
    ELSE [i \in 1..Len(m) |-> m[i].success]

\* a wrong variant: ten rows are still too few
InsufficientInclusive(n) == n <= MinSamples

\* if len(...) < 10: print(...); return
Insufficient(n) == n < MinSamples

----------------------------------------------------------------------------
(* train_test_split(..., test_size=0.2, random_state=42, stratify=labels) *)

LabelClasses == {NaN, 0, 1}

ClassCounts(labels) ==
    [c \in LabelClasses |-> Cardinality({i \in 1..Len(labels) : labels[i] = c})]

Present(counts) == {c \in LabelClasses : counts[c] > 0}

\* ceil(0.2 * n); n_train is the rest
TestSize(n) == (n + 4) \div 5

SumCounts(a) == a[NaN] + a[0] + a[1]

\* _approximate_mode: every class gets the floor of its proportional share,
\* the draws left over go to the classes with the largest remainders; equal
\* remainders are separated by the seeded generator, whose pick the model
\* leaves open
ApproximateModes(counts, n, draws) ==
    LET floor == [c \in LabelClasses |-> (counts[c] * draws) \div n]
        rem == [c \in LabelClasses |-> (counts[c] * draws) % n]
    IN  { [c \in LabelClasses |-> floor[c] + (IF c \in extra THEN 1 ELSE 0)] :
            extra \in { e \in SUBSET LabelClasses :
                          /\ Cardinality(e) = draws - SumCounts(floor)
                          /\ \A c \in e : \A o \in LabelClasses \ e :
                                rem[c] >= rem[o] } }

\* StratifiedShuffleSplit raises ValueError when a class has one member or a
\* partition is smaller than the number of classes
SplitRaises(labels) ==
    LET counts == ClassCounts(labels)
        n == Len(labels)
    IN  \/ \E c \in Present(counts) : counts[c] < 2
        \/ TestSize(n) < Cardinality(Present(counts))
        \/ n - TestSize(n) < Cardinality(Present(counts))

Splits(labels) ==
    LET counts == ClassCounts(labels)
        n == Len(labels)
    IN  { [state |-> "split",
           train |-> tr,
           test |-> [c \in LabelClasses |-> counts[c] - tr[c]]] :
            tr \in ApproximateModes(counts, n, n - TestSize(n)) }

TrainSingleClass(sp) == Cardinality(Present(sp.train)) = 1
TestSingleClass(sp) == Cardinality(Present(sp.test)) = 1

\* StratifiedKFold(5) raises ValueError when every class of the training
\* labels has fewer than 5 members
CrossValRaises(sp) == \A c \in LabelClasses : sp.train[c] < 5

\* the estimator's fit raises: NaN rows in the training partition (the
\* padding rows of _prepare_training_data hold NaN in label and features),
\* or one class only for an estimator that needs two
FitRaises(f, sp) ==
    \/ sp.train[NaN] > 0
    \/ f \in NeedsTwoClasses /\ TrainSingleClass(sp)

\* the evaluation after a successful fit raises: predict on NaN test rows,
\* predict_proba(X_test)[:, 1] with one class fitted, or cross_val_score
EvalRaises(f, sp) ==
    /\ f \in Classifiers
    /\ \/ sp.test[NaN] > 0
       \/ TrainSingleClass(sp)
       \/ f \in CrossValidated /\ CrossValRaises(sp)

\* roc_auc_score on a test partition with one class: ValueError or, in later
\* scikit-learn releases, a warning and nan
EvalMayRaise(f, sp) == f \in Classifiers /\ TestSingleClass(sp)

\* the exception of a raising evaluation: predict on NaN rows (ValueError)
\* comes first, then predict_proba(X_test)[:, 1] (IndexError), then
\* roc_auc_score and cross_val_score (ValueError)
EvalError(f, sp) ==
    IF sp.test[NaN] = 0 /\ TrainSingleClass(sp) THEN "IndexError" ELSE "ValueError"

----------------------------------------------------------------------------
(* train_models, step by step *)

Terminal == {"Done", "Aborted", "Failed"}

\* the locals of train_models are gone once it returns or raises
DropLocals ==
    /\ data' = NoData
    /\ matrix' = NoMatrix
    /\ split' = NoSplit
    /\ step' = 0
    /\ metrics' = [f \in FamilySet(task) |-> {}]

\* an exception nothing catches leaves train_models
Raised(where, error) ==
    /\ pc' = "Failed"
    /\ result' = [kind |-> "raised", at |-> where, error |-> error]
    /\ DropLocals

TrainStart ==
    /\ pc \in {"Idle"} \cup Terminal
    /\ run < MaxRuns
    /\ run' = run + 1
    /\ pc' = "Fetching"
    /\ result' = [kind |-> "running"]
    /\ UNCHANGED <<data, asmVars, serveVars, histVars, task, as_main, matrix, split, step, metrics,
                   scaler, slots, files, snapshot>>

\* data = self.preprocessor.fetch_all_data()
Fetch ==
    /\ pc = "Fetching"
    /\ data' \in TrainInputs
    /\ pc' = "Assembling"
    /\ UNCHANGED <<asmVars, serveVars, histVars, task, as_main, run, matrix, split, step, metrics,
                   scaler, slots, files, snapshot, result>>

\* the same call, the store being in one of the states of ServeInputs
FetchForServing ==
    /\ pc = "Fetching"
    /\ data' \in ServeInputs
    /\ pc' = "Assembling"
    /\ UNCHANGED <<asmVars, serveVars, histVars, task, as_main, run, matrix, split, step, metrics,
                   scaler, slots, files, snapshot, result>>

\* the assembler call raises (KeyError on a table without rows)
AssembleRaises ==
    /\ pc = "Assembling"
    /\ ~Assembled(task, data).ok
    /\ Raised("Assembling", Assembled(task, data).error)
    /\ UNCHANGED <<asmVars, serveVars, histVars, task, as_main, run, scaler, slots, files, snapshot>>

\* fewer than 10 rows: the message is printed and None returned
AssembleInsufficient ==
    /\ pc = "Assembling"
    /\ Assembled(task, data).ok
    /\ Insufficient(RowCount(task, Assembled(task, data).value))
    /\ pc' = "Aborted"
    /\ result' = [kind |-> "None"]
    /\ DropLocals
    /\ UNCHANGED <<asmVars, serveVars, histVars, task, as_main, run, scaler, slots, files, snapshot>>

Assemble ==
    /\ pc = "Assembling"
    /\ Assembled(task, data).ok
    /\ ~Insufficient(RowCount(task, Assembled(task, data).value))
    /\ matrix' = [state |-> "assembled", value |-> Assembled(task, data).value]
    /\ pc' = "Scaling"
    /\ UNCHANGED <<data, asmVars, serveVars, histVars, task, as_main, run, split, step, metrics,
                   scaler, slots, files, snapshot, result>>

\* self.scaler.fit_transform on every assembled row, before the split
Scale ==
    /\ pc = "Scaling"
    /\ scaler' = [state |-> "fitted", run |-> run, rows |-> "all"]
    /\ pc' = "Splitting"
    /\ UNCHANGED <<data, asmVars, serveVars, histVars, task, as_main, run, matrix, split, step,
                   metrics, slots, files, snapshot, result>>

\* random_state=42: the generator gives the same partition whenever it is
\* asked to split the same labels.  Which class it gives the odd row to at a
\* tie of _approximate_mode is fixed for the build and left open here
SeededSplit(labels) ==
    CHOOSE sp \in Splits(labels) :
        \A other \in Splits(labels) : sp.train[seeded] >= other.train[seeded]

SplitRows ==
    /\ pc = "Splitting"
    /\ ~SplitRaises(Labels(task, matrix.value))
    /\ split' = SeededSplit(Labels(task, matrix.value))
    /\ pc' = "Fitting"
    /\ step' = 1
    /\ UNCHANGED <<data, asmVars, serveVars, histVars, task, as_main, run, matrix,
                   metrics, scaler, slots, files, snapshot, result>>

SplitRowsRaises ==
    /\ pc = "Splitting"
    /\ SplitRaises(Labels(task, matrix.value))
    /\ Raised("Splitting", "ValueError")
    /\ UNCHANGED <<asmVars, serveVars, histVars, task, as_main, run, scaler, slots, files, snapshot>>

\* a wrong variant: no family is evaluated after its fit
EvaluatedNone == {}

\* the families whose block goes on, after the fit, to predictions on the
\* test partition and metrics; NearestNeighbors is fitted and nothing more
Evaluated == Classifiers \cup {"random_forest_regressor"}

\* the block of the family at position i is over: the next block, or the report
AfterFamily(i) ==
    IF i < Len(Families(task))
    THEN pc' = "Fitting" /\ step' = i + 1
    ELSE pc' = "Reporting" /\ step' = 0

\* a family block, first half: the estimator is constructed, assigned to its
\* slot and fitted on X_train
FitFamily ==
    /\ pc = "Fitting"
    /\ LET f == Families(task)[step]
       IN  /\ ~FitRaises(f, split)
           /\ slots' = [slots EXCEPT ![f] =
                          [state |-> "fitted", run |-> run, rows |-> "train"]]
           /\ IF f \in Evaluated
              THEN pc' = "Evaluating" /\ step' = step
              ELSE AfterFamily(step)
    /\ UNCHANGED <<data, asmVars, serveVars, histVars, task, as_main, run, matrix, split, metrics,
                   scaler, files, snapshot, result>>

\* fit raises, and no try/except stands around the block: the slot was
\* assigned the new estimator before fit was called and holds it unfitted
FitFamilyRaises ==
    /\ pc = "Fitting"
    /\ LET f == Families(task)[step]
       IN  /\ FitRaises(f, split)
           /\ slots' = [slots EXCEPT ![f] =
                          [state |-> "unfitted", run |-> run, rows |-> "none"]]
           /\ Raised(f, "ValueError")
    /\ UNCHANGED <<asmVars, serveVars, histVars, task, as_main, run, scaler, files, snapshot>>

\* a family block, second half: predictions on X_test, the metrics and, for
\* some families, cross_val_score on X_train
EvaluateFamily ==
    /\ pc = "Evaluating"
    /\ LET f == Families(task)[step]
       IN  /\ ~EvalRaises(f, split)
           /\ metrics' = [metrics EXCEPT ![f] = MetricsOf(f)]
    /\ AfterFamily(step)
    /\ UNCHANGED <<data, asmVars, serveVars, histVars, task, as_main, run, matrix, split, scaler,
                   slots, files, snapshot, result>>

\* the evaluation raises; the slot keeps the fitted estimator
EvaluateFamilyRaises ==
    /\ pc = "Evaluating"
    /\ LET f == Families(task)[step]
       IN  /\ EvalRaises(f, split) \/ EvalMayRaise(f, split)
           /\ Raised(f, EvalError(f, split))
    /\ UNCHANGED <<asmVars, serveVars, histVars, task, as_main, run, scaler, slots, files, snapshot>>

\* feature importances and the confusion matrices cm[0,0] .. cm[1,1]
Report ==
    /\ pc = "Reporting"
    /\ pc' = "Saving"
    /\ step' = 1
    /\ UNCHANGED <<data, asmVars, serveVars, histVars, task, as_main, run, matrix, split, metrics,
                   scaler, slots, files, snapshot, result>>

\* with one class in the test labels and in the predictions the confusion
\* matrix is 1 x 1 and cm[0,1] raises
ReportRaises ==
    /\ pc = "Reporting"
    /\ TestSingleClass(split)
    /\ Raised("Reporting", "IndexError")
    /\ UNCHANGED <<asmVars, serveVars, histVars, task, as_main, run, scaler, slots, files, snapshot>>

\* the object joblib.dump writes for the file name n
Dumped(n) == IF n = "scaler" THEN scaler ELSE slots[n]

\* _save_models: one joblib.dump
SaveFile ==
    /\ pc = "Saving"
    /\ LET n == SaveOrder(task)[step]
       IN  files' = [files EXCEPT ![n] = [state |-> "written", content |-> Dumped(n)]]
    /\ IF step < Len(SaveOrder(task))
       THEN pc' = "Saving" /\ step' = step + 1
       ELSE pc' = "Exporting" /\ step' = 0
    /\ UNCHANGED <<data, asmVars, serveVars, histVars, task, as_main, run, matrix, split, metrics,
                   scaler, slots, snapshot, result>>

\* one joblib.dump raises (OSError): the file is as before or truncated
SaveFileRaises ==
    /\ pc = "Saving"
    /\ LET n == SaveOrder(task)[step]
       IN  \/ files' = files
           \/ files' = [files EXCEPT ![n] = [state |-> "truncated", content |-> NoObject]]
    /\ Raised("Saving", "OSError")
    /\ UNCHANGED <<asmVars, serveVars, histVars, task, as_main, run, scaler, slots, snapshot>>

\* metadata.training_samples of the performance snapshot: len(feature_names)
\* (the recommendation snapshot has no such key; 0 stands for none)
TrainingSamples(t, m) == IF t = "performance" THEN Len(FeatureNames(t)) ELSE 0

\* 'trained_at': pd.Timestamp.now().isoformat(): the time of the export,
\* which is later in a later run
Now == run

\* what the snapshot document says: the ghost field run is not part of it
Document(snap) ==
    [keys |-> snap.keys, training_samples |-> snap.training_samples,
     trained_at |-> snap.trained_at]

\* _export_model_parameters: open(path, 'w') truncates the document
ExportOpen ==
    /\ pc = "Exporting"
    /\ snapshot' = [state |-> "truncated", run |-> run, keys |-> {},
                    training_samples |-> 0, trained_at |-> 0]
    /\ pc' = "ExportWriting"
    /\ UNCHANGED <<data, asmVars, serveVars, histVars, task, as_main, run, matrix, split, step,
                   metrics, scaler, slots, files, result>>

\* json.dump(params, f, indent=2) writes the whole document
ExportDump ==
    /\ pc = "ExportWriting"
    /\ snapshot' = [state |-> "complete", run |-> run, keys |-> SnapshotKeys(task),
                    training_samples |-> TrainingSamples(task, matrix.value),
                    trained_at |-> Now]
    /\ previous' = [state |-> "exported", input |-> data, split |-> split,
                    metrics |-> metrics, document |-> Document(snapshot')]
    /\ pc' = "Visualizing"
    /\ UNCHANGED <<data, asmVars, serveVars, seeded, task, as_main, run, matrix, split,
                   step, metrics, scaler, slots, files, result>>

\* json.dump raises part-way (OSError): a prefix of the document is on disk
ExportDumpRaises ==
    /\ pc = "ExportWriting"
    /\ snapshot' = [state |-> "partial", run |-> run, keys |-> {"metadata"},
                    training_samples |-> TrainingSamples(task, matrix.value),
                    trained_at |-> Now]
    /\ Raised("Exporting", "OSError")
    /\ UNCHANGED <<asmVars, serveVars, histVars, task, as_main, run, scaler, slots, files>>

\* train_performance_models.py imports os only under __main__: imported as a
\* module, os.makedirs in _generate_visualizations raises NameError
VisualizeRaises ==
    /\ pc = "Visualizing"
    /\ task = "performance" /\ ~as_main
    /\ Raised("Visualizing", "NameError")
    /\ UNCHANGED <<asmVars, serveVars, histVars, task, as_main, run, scaler, slots, files, snapshot>>

\* _generate_visualizations, then the metrics dict is returned
VisualizeAndReturn ==
    /\ pc = "Visualizing"
    /\ ~(task = "performance" /\ ~as_main)
    /\ pc' = "Done"
    /\ result' = [kind |-> "metrics",
                  families |-> {f \in FamilySet(task) : metrics[f] # {}},
                  samples_used |-> RowCount(task, matrix.value),
                  train_size |-> SumCounts(split.train),
                  test_size |-> SumCounts(split.test)]
    /\ DropLocals
    /\ UNCHANGED <<asmVars, serveVars, histVars, task, as_main, run, scaler, slots, files, snapshot>>

----------------------------------------------------------------------------
(* predict_performance, called on a predictor of its own (the serving side) *)

\* joblib.load of a file that is missing or cut short
LoadError(file) == IF file.state = "absent" THEN "FileNotFoundError" ELSE "EOFError"

\* _load_models: the files are read in the order they are saved in, each
\* object assigned as soon as it is read; the first file that cannot be read
\* raises and the objects assigned before it stay assigned
RECURSIVE LoadFrom(_, _, _)
LoadFrom(s, fs, i) ==
    IF i > Len(SaveOrder(task))
    THEN [ok |-> TRUE, served |-> s, error |-> "none"]
    ELSE LET n == SaveOrder(task)[i]
         IN  IF fs[n].state # "written"
             THEN [ok |-> FALSE, served |-> s, error |-> LoadError(fs[n])]
             ELSE LoadFrom([s EXCEPT ![n] = fs[n].content], fs, i + 1)

\* a wrong variant: the files are read on every call
NeedsLoadAlways(s) == TRUE

\* if self.logistic_model is None
NeedsLoad(s) == s["logistic_regression"].state = "None"

\* lines 260-276: scaler.transform, the logistic model, the regressor, the
\* importances of the forest classifier, then the answer
Score(s, loads) ==
    IF s["scaler"].state # "fitted"
    THEN [kind |-> "raised", at |-> "transform", error |-> "NotFittedError", loads |-> loads]
    ELSE IF \E n \in {"logistic_regression", "random_forest_regressor",
                      "random_forest_classifier"} : s[n].state # "fitted"
    THEN [kind |-> "raised", at |-> "predict", error |-> "AttributeError", loads |-> loads]
    ELSE [kind |-> "prediction", loads |-> loads,
          model_run |-> s["logistic_regression"].run,
          scaler_run |-> s["scaler"].run]

\* the call comes from another process, at any point of a training run
predict_performance ==
    /\ task = "performance"
    /\ Len(answers) < MaxCalls
    /\ LET loading == NeedsLoad(served)
           loaded == IF loading THEN LoadFrom(served, files, 1)
                     ELSE [ok |-> TRUE, served |-> served, error |-> "none"]
           loads == IF loading THEN 1 ELSE 0
       IN  /\ served' = loaded.served
           /\ answers' = Append(answers,
                IF loaded.ok THEN Score(loaded.served, loads)
                ELSE [kind |-> "raised", at |-> "load", error |-> loaded.error,
                      loads |-> loads])
    /\ UNCHANGED <<data, asmVars, histVars, task, as_main, run, pc, matrix, split,
                   step, metrics, scaler, slots, files, snapshot, result>>

InitTrain ==
    /\ data = NoData
    /\ call = NoCall
    /\ ret = NoReturn
    /\ task \in Tasks
    /\ as_main \in IF task = "performance" THEN BOOLEAN ELSE {TRUE}
    /\ seeded \in {0, 1}
    /\ TrainerConstructed

NextTrain ==
    \/ TrainStart
    \/ Fetch
    \/ AssembleRaises
    \/ AssembleInsufficient
    \/ Assemble
    \/ Scale
    \/ SplitRows
    \/ SplitRowsRaises
    \/ FitFamily
    \/ FitFamilyRaises
    \/ EvaluateFamily
    \/ EvaluateFamilyRaises
    \/ Report
    \/ ReportRaises
    \/ SaveFile
    \/ SaveFileRaises
    \/ ExportOpen
    \/ ExportDump
    \/ ExportDumpRaises
    \/ VisualizeRaises
    \/ VisualizeAndReturn

SpecTrain == InitTrain /\ [][NextTrain]_vars

\* training runs of the performance trainer and, from another process, the
\* calls of a predictor that serves from the files they write
InitServe == InitTrain /\ task = "performance"

NextServe ==
    \/ TrainStart
    \/ FetchForServing
    \/ AssembleRaises
    \/ AssembleInsufficient
    \/ Assemble
    \/ Scale
    \/ SplitRows
    \/ SplitRowsRaises
    \/ FitFamily
    \/ FitFamilyRaises
    \/ EvaluateFamily
    \/ EvaluateFamilyRaises
    \/ Report
    \/ ReportRaises
    \/ SaveFile
    \/ SaveFileRaises
    \/ ExportOpen
    \/ ExportDump
    \/ ExportDumpRaises
    \/ VisualizeRaises
    \/ VisualizeAndReturn
    \/ predict_performance

SpecServe == InitServe /\ [][NextServe]_vars

----------------------------------------------------------------------------
(* The assembler operations called on bounded entity collections *)


Init ==
    /\ data \in AssemblerInputs
    /\ call = NoCall
    /\ ret = NoReturn
    /\ task = "performance"
    /\ as_main = TRUE
    /\ seeded = 0
    /\ TrainerConstructed

CallPerformance ==
    /\ call' = [op |-> "prepare_performance_data"]
    /\ ret' = prepare_performance_data(data)
    /\ UNCHANGED <<data, trainVars>>

CallTraining ==
    /\ call' = [op |-> "_prepare_training_data"]
    /\ ret' = prepare_training_data(data)
    /\ UNCHANGED <<data, trainVars>>

CallRecommendation ==
    \E student_id \in StudentIds :
        /\ call' = [op |-> "prepare_recommendation_data", student_id |-> student_id]
        /\ ret' = prepare_recommendation_data(data, student_id)
        /\ UNCHANGED <<data, trainVars>>

CallSimilarity ==
    \E student_id \in StudentIds :
        /\ call' = [op |-> "calculate_similarity_features", student_id |-> student_id]
        /\ ret' \in calculate_similarity_features(data, student_id)
        /\ UNCHANGED <<data, trainVars>>

Next == CallPerformance \/ CallTraining \/ CallRecommendation \/ CallSimilarity

Spec == Init /\ [][Next]_vars

----------------------------------------------------------------------------
(* The similarity ranking on populations with equal scores *)

MaxStudents == 3

\* seen from StudentB, StudentA and StudentC score the same; StudentD has
\* StudentB's GPA, major and disability flag
StudentC == [id |-> "s3", current_gpa |-> 25, has_disability |-> TRUE, major |-> "CS"]
StudentD == [id |-> "s4", current_gpa |-> 30, has_disability |-> FALSE, major |-> "CS"]

SimilarityStudents ==
    {st \in SeqsUpTo({StudentA, StudentB, StudentC, StudentD}, MaxStudents) :
        IsInjective(st)}

SimilarityGrades ==
    {gr \in SeqsUpTo({ Grade("s1", "c1", 15, 80, 1), Grade("s2", "c1", 25, 85, 1),
                       Grade("s3", "c1", 30, 75, 1), Grade("s4", "c2", 20, 95, 1) },
                     MaxGrades) :
        IsInjective(gr)}

SimilarityInputs ==
    { Entities(st, <<CourseA, CourseB>>, gr, <<>>, <<>>) :
        st \in SimilarityStudents, gr \in SimilarityGrades }

InitSimilarity ==
    /\ data \in SimilarityInputs
    /\ call = NoCall
    /\ ret = NoReturn
    /\ task = "performance"
    /\ as_main = TRUE
    /\ seeded = 0
    /\ TrainerConstructed

NextSimilarity == CallSimilarity

SpecSimilarity == InitSimilarity /\ [][NextSimilarity]_vars

----------------------------------------------------------------------------
(* CourseRecommender._export_model_parameters: the document it writes *)

RuleBudget == 2000

MaxOver == 30

\* a text is the sequence of its characters; export_text's output grows
\* with the fitted tree
RuleText(n, m) == [i \in 1..n |-> i % m]

RuleTexts ==
    { RuleText(n, m) : n \in (RuleBudget - MaxOver)..(RuleBudget + MaxOver),
                       m \in {2, 3} }

\* tree_rules without the slice
RuleDumpWhole(tree_rules) == tree_rules

\* tree_rules[:2000]
RuleDump(tree_rules) ==
    SubSeq(tree_rules, 1, IF Len(tree_rules) <= RuleBudget
                          THEN Len(tree_rules) ELSE RuleBudget)

\* the values json.dump writes as they are
JsonKinds == {"int", "float", "str", "list"}

\* NpEncoder.default, called for every value json.dump cannot write itself
NpEncoder(v) ==
    IF v.kind = "np.integer" THEN [v EXCEPT !.kind = "int"]
    ELSE IF v.kind = "np.floating" THEN [v EXCEPT !.kind = "float"]
    ELSE IF v.kind = "np.ndarray" THEN [v EXCEPT !.kind = "list"]
    ELSE [v EXCEPT !.kind = "TypeError"]

Encoded(v) == IF v.kind \in JsonKinds THEN v ELSE NpEncoder(v)

\* params of CourseRecommender._export_model_parameters, every value with
\* its Python type
RecommendationParams(tree_rules, feature_names) ==
    [metadata |->
        [model_version |-> [kind |-> "str"],
         feature_names |-> [kind |-> "list", items |-> feature_names],
         trained_at |-> [kind |-> "str"]],
     knn |->
        [n_neighbors |-> [kind |-> "int"],
         weights |-> [kind |-> "str"],
         metric |-> [kind |-> "str"]],
     decision_tree |->
        [max_depth |-> [kind |-> "int"],
         n_features |-> [kind |-> "int"],
         n_classes |-> [kind |-> "np.integer"],
         feature_importances |-> [kind |-> "list"],
         feature_names |-> [kind |-> "list", items |-> feature_names],
         tree_rules |-> [kind |-> "str", text |-> RuleDump(tree_rules)]],
     random_forest |->
        [n_estimators |-> [kind |-> "int"],
         feature_importances |-> [kind |-> "list"],
         max_depth |-> [kind |-> "int"]],
     adaboost |->
        [n_estimators |-> [kind |-> "int"],
         learning_rate |-> [kind |-> "float"]]]

\* json.dump(params, f, indent=2, cls=NpEncoder)
JsonDump(params) ==
    LET doc == [e \in DOMAIN params |->
                   [k \in DOMAIN params[e] |-> Encoded(params[e][k])]]
    IN  IF \E e \in DOMAIN doc : \E k \in DOMAIN doc[e] : doc[e][k].kind = "TypeError"
        THEN Raise("TypeError")
        ELSE Return(doc)

ExportInputs ==
    { [tree_rules |-> t, feature_names |-> FeatureNames("recommendation")] :
        t \in RuleTexts }

InitExport ==
    /\ data \in ExportInputs
    /\ call = NoCall
    /\ ret = NoReturn
    /\ task = "recommendation"
    /\ as_main = TRUE
    /\ seeded = 0
    /\ TrainerConstructed

ExportParameters ==
    /\ call' = [op |-> "_export_model_parameters"]
    /\ ret' = JsonDump(RecommendationParams(data.tree_rules, data.feature_names))
    /\ UNCHANGED <<data, trainVars>>

NextExport == ExportParameters

SpecExport == InitExport /\ [][NextExport]_vars

----------------------------------------------------------------------------
(* DataPreprocessor.normalize_features *)

MaxFrameRows == 3

\* the caller's frames: a column that is not numeric and a numeric one,
\* its numbers in tenths
FrameInputs ==
    SeqsUpTo({ [major |-> "CS", current_gpa |-> [tenths |-> v]] : v \in {20, 25, 30, 35} },
             MaxFrameRows)

\* StandardScaler: z = (x - mean) / scale with the population variance and
\* scale 1 for a constant column; z is held as its sign and its square,
\* z^2 = (n*x - sum)^2 / (n*sum(x^2) - sum^2)
Standardized(x, column) ==
    LET n == Len(column)
        sum == SumSeq(column)
        squares == SumSeq([i \in 1..n |-> column[i] * column[i]])
        spread == n * squares - sum * sum
    IN  IF spread = 0 THEN [sign |-> 0, square |-> <<0, 1>>]
        ELSE [sign |-> IF n * x > sum THEN 1 ELSE IF n * x < sum THEN 0 - 1 ELSE 0,
              square |-> Frac((n * x - sum) * (n * x - sum), spread)]

\* df[numeric_cols] = scaler.fit_transform(df[numeric_cols])
FitTransform(df) ==
    LET column == [i \in 1..Len(df) |-> df[i].current_gpa.tenths]
    IN  [i \in 1..Len(df) |->
            [df[i] EXCEPT !.current_gpa = Standardized(column[i], column)]]

InitNormalize ==
    /\ data \in FrameInputs
    /\ call = NoCall
    /\ ret = NoReturn
    /\ task = "performance"
    /\ as_main = TRUE
    /\ seeded = 0
    /\ TrainerConstructed

\* fit_transform on a frame without rows raises ValueError before the
\* assignment
NormalizeRaises ==
    /\ call = NoCall
    /\ data = <<>>
    /\ call' = [op |-> "normalize_features"]
    /\ ret' = Raise("ValueError")
    /\ UNCHANGED <<data, trainVars>>

\* the scaled columns are assigned into the caller's frame, which is also
\* what is returned; the scaler is a local of the call
Normalize ==
    /\ call = NoCall
    /\ data # <<>>
    /\ call' = [op |-> "normalize_features"]
    /\ data' = FitTransform(data)
    /\ ret' = Return([df |-> data'])
    /\ UNCHANGED trainVars

NextNormalize == Normalize \/ NormalizeRaises

SpecNormalize == InitNormalize /\ [][NextNormalize]_vars

----------------------------------------------------------------------------
(* Properties of the assembler operations *)

Ids(records) == [i \in 1..Len(records) |-> records[i].id]

UniqueIds(d) == IsInjective(Ids(d.students)) /\ IsInjective(Ids(d.courses))

HasId(records, id) == \E i \in 1..Len(records) : records[i].id = id

WithId(records, id) == CHOOSE r \in {records[i] : i \in 1..Len(records)} : r.id = id

Resolves(d, g) == HasId(d.students, g.student_id) /\ HasId(d.courses, g.course_id)

ResolvedGrades(d) == SelectSeq(d.grades, LAMBDA g : Resolves(d, g))

GradesOf(d, student_id) == SelectSeq(d.grades, LAMBDA g : g.student_id = student_id)

\* <<p, q>> is the mean of the grade_points of the rows gs (q = 0: no mean)
IsMeanOf(pq, gs) ==
    /\ Len(gs) > 0
    /\ pq[2] > 0
    /\ pq[1] * Len(gs) = pq[2] * SumSeq([i \in 1..Len(gs) |-> gs[i].grade_point])

CalledPerformance == call.op = "prepare_performance_data"
CalledTraining == call.op = "_prepare_training_data"
CalledRecommendation == call.op = "prepare_recommendation_data"

\* C3: with unique student and course ids, prepare_performance_data returns
\* one feature row per Grade row whose student_id and course_id resolve, in
\* the order of the Grade rows, raises nothing, and the two label vectors are
\* as long as the matrix and in the same row order.
C3_OneRowPerResolvedGrade ==
    CalledPerformance /\ UniqueIds(data) =>
        /\ ret.ok
        /\ LET r == ResolvedGrades(data)
               v == ret.value
           IN  /\ Len(v.features) = Len(r)
               /\ Len(v.target) = Len(r)
               /\ Len(v.at_risk) = Len(r)
               /\ \A i \in 1..Len(r) :
                    /\ v.features[i].attendance_rate = r[i].attendance_rate
                    /\ v.features[i].current_gpa
                         = WithId(data.students, r[i].student_id).current_gpa
                    /\ v.features[i].credits
                         = WithId(data.courses, r[i].course_id).credits
                    /\ v.target[i] = r[i].grade_point
                    /\ v.at_risk[i] = AsInt(r[i].grade_point < 20)

\* C4: in what prepare_performance_data returns, at_risk[i] is 0 or 1, and
\* it is 1 exactly when grade_point[i] < 2.0 (2.0 itself gives 0).
C4_AtRiskIffBelowTwo ==
    CalledPerformance /\ ret.ok =>
        /\ Len(ret.value.at_risk) = Len(ret.value.target)
        /\ \A i \in 1..Len(ret.value.target) :
            /\ ret.value.at_risk[i] \in {0, 1}
            /\ ret.value.at_risk[i] = 1 <=> ret.value.target[i] < 20

C4_Witness ==
    /\ CalledPerformance
    /\ ret.ok
    /\ \E i, j \in 1..Len(ret.value.target) :
        /\ ret.value.target[i] = 20 /\ ret.value.at_risk[i] = 0
        /\ ret.value.target[j] = 15 /\ ret.value.at_risk[j] = 1

\* C5: the rows _prepare_training_data returns are the rows of the
\* performance join, and each carries as avg_previous_grade the mean of all
\* grade_points of that row's own student.
C5_AvgOfRowsOwnStudent ==
    CalledTraining /\ ret.ok =>
        /\ Len(ret.value) = Len(prepare_performance_data(data).value.target)
        /\ \A i \in 1..Len(ret.value) :
            IsMeanOf(ret.value[i].avg_previous_grade,
                     GradesOf(data, ret.value[i].student_id))

\* C6: in every row _prepare_training_data returns, success is 0 or 1, and
\* it is 1 exactly when the row's grade_point >= 2.5.
C6_SuccessIffAtLeastTwoPointFive ==
    CalledTraining /\ ret.ok =>
        \A i \in 1..Len(ret.value) :
            /\ ret.value[i].success \in {0, 1}
            /\ ret.value[i].success = 1 <=> ret.value[i].actual_grade >= 25

TakenBy(d, student_id) ==
    {d.grades[i].course_id :
        i \in {j \in 1..Len(d.grades) : d.grades[j].student_id = student_id}}

Untaken(d, student_id) ==
    SelectSeq(d.courses, LAMBDA c : c.id \notin TakenBy(d, student_id))

\* C7: for a target student who exists, prepare_recommendation_data returns
\* one row for each course the target has no Grade row for, and no row for a
\* course the target has a Grade row for.
C7_OneRowPerUntakenCourse ==
    CalledRecommendation /\ HasId(data.students, call.student_id) =>
        /\ ret.ok
        /\ LET u == Untaken(data, call.student_id)
           IN  /\ Len(ret.value) = Len(u)
               /\ \A i \in 1..Len(u) :
                    /\ ret.value[i].course_id = u[i].id
                    /\ ret.value[i].credits = u[i].credits
                    /\ ret.value[i].course_difficulty = u[i].difficulty_level

\* C8: in every row prepare_recommendation_data returns, avg_previous_grade
\* is the mean of the target's own grade_points when the target has a Grade
\* row and exactly 2.5 when it has none.
C8_AvgPreviousGrade ==
    CalledRecommendation /\ ret.ok =>
        LET own == GradesOf(data, call.student_id)
        IN  \A i \in 1..Len(ret.value) :
                IF Len(own) > 0
                THEN IsMeanOf(ret.value[i].avg_previous_grade, own)
                ELSE ret.value[i].avg_previous_grade = <<25, 1>>

C8_Witness ==
    /\ CalledRecommendation
    /\ ret.ok
    /\ Len(GradesOf(data, call.student_id)) = 2
    /\ \E i \in 1..Len(ret.value) : ret.value[i].avg_previous_grade = <<35, 2>>

MatchingStudents(d, student_id) == SelectSeq(d.students, LAMBDA s : s.id = student_id)

OtherTablesEmpty(d) == d.grades = <<>> \/ d.preferences = <<>> \/ d.courses = <<>>

C10_IndependentOfDisabilityProfiles ==
    CalledPerformance =>
        /\ \A di \in DisabilityInputs :
              prepare_performance_data([data EXCEPT !.disabilities = di]) = ret
        /\ ret.ok /\ UniqueIds(data) =>
              LET r == ResolvedGrades(data)
              IN  \A i \in 1..Len(r) :
                     WithId(data.students, r[i].student_id).has_disability
                       => ret.value.features[i].has_disability = 1

C10_Witness ==
    /\ CalledPerformance
    /\ ret.ok
    /\ UniqueIds(data)
    /\ data.disabilities = <<>>
    /\ \E i \in 1..Len(ResolvedGrades(data)) :
        /\ WithId(data.students, ResolvedGrades(data)[i].student_id).has_disability
        /\ ret.value.features[i].has_disability = 1

----------------------------------------------------------------------------
(* Properties of the training runs *)

\* C1: a model family that fails to fit is dropped and the run goes on to
\* Done with the other families: no run ends Failed with the exception of a
\* family's fit, its slot left holding the estimator that could not be fitted.
C1_FamilyFailureKeepsRunGoing ==
    ~(/\ pc = "Failed"
      /\ result.kind = "raised"
      /\ result.at \in FamilySet(task)
      /\ slots[result.at].state = "unfitted")

\* C2: when the assembled matrix has fewer than 10 rows the run ends there
\* with the insufficient-data outcome (None returned), the scaler, the model
\* slots, the model and scaler files and the snapshot being left as they
\* were; with 10 or more rows it goes on to scaling and splitting.
C2_InsufficientDataAborts ==
    [][pc = "Assembling" /\ Assembled(task, data).ok =>
         IF RowCount(task, Assembled(task, data).value) < 10
         THEN /\ pc' = "Aborted"
              /\ result' = [kind |-> "None"]
              /\ scaler' = scaler
              /\ slots' = slots
              /\ files' = files
              /\ snapshot' = snapshot
         ELSE pc' = "Scaling"]_vars

C2_Witness ==
    /\ pc = "Aborted"
    /\ result = [kind |-> "None"]
    /\ scaler.state = "unfitted"
    /\ \A f \in FamilySet(task) : slots[f].state = "None"
    /\ \A n \in FileNames(task) : files[n].state = "absent"
    /\ snapshot.state = "absent"

\* the position of a phase in a run; fitting and evaluating alternate family
\* by family and share a position
PhaseRank(p) ==
    CASE p = "Idle" -> 0
      [] p = "Fetching" -> 1
      [] p = "Assembling" -> 2
      [] p = "Scaling" -> 3
      [] p = "Splitting" -> 4
      [] p \in {"Fitting", "Evaluating"} -> 5
      [] p = "Reporting" -> 6
      [] p = "Saving" -> 7
      [] p \in {"Exporting", "ExportWriting"} -> 8
      [] p = "Visualizing" -> 9
      [] p = "Done" -> 10
      [] OTHER -> 11

FittedInRun(f) == slots[f].state = "fitted" /\ slots[f].run = run

EvaluatedInRun(f) == MetricsOf(f) # {} => metrics[f] = MetricsOf(f)

\* C11 as stated: the phases follow one another, Fitting of the model
\* families being over before Evaluating starts: whenever a run is
\* evaluating, every family of the task has been fitted in that run.
C11_EvaluatingAfterAllFitted ==
    pc = "Evaluating" => \A f \in FamilySet(task) : FittedInRun(f)

\* C11, amended: a run goes through Fetching, Assembling, Splitting, the
\* family blocks, Exporting and Done in that order, skipping none and never
\* going back; the families are handled one after another, each evaluated
\* right after its own fit and before the next family is fitted; the snapshot
\* is written only when every family has been fitted and evaluated in the
\* run, and the metrics are returned only after the snapshot of the run is
\* complete.
C11_PhaseOrder ==
    [][/\ run' = run /\ pc' \notin {"Failed", "Aborted"} =>
            /\ PhaseRank(pc') >= PhaseRank(pc)
            /\ PhaseRank(pc') <= PhaseRank(pc) + 1
       /\ pc' = "Evaluating" /\ pc # "Evaluating" =>
            /\ pc = "Fitting"
            /\ step' = step
            /\ slots'[Families(task)[step]] =
                  [state |-> "fitted", run |-> run, rows |-> "train"]
       /\ pc' = "Fitting" =>
            (\A i \in 1..(step - 1) :
                 FittedInRun(Families(task)[i]) /\ EvaluatedInRun(Families(task)[i]))'
       /\ snapshot' # snapshot =>
            /\ pc \in {"Exporting", "ExportWriting"}
            /\ \A f \in FamilySet(task) : FittedInRun(f) /\ EvaluatedInRun(f)
       /\ pc' = "Done" /\ pc # "Done" =>
            /\ snapshot.state = "complete"
            /\ snapshot.run = run
            /\ result'.kind = "metrics"]_vars

C11_Witness ==
    /\ pc = "Done"
    /\ result.kind = "metrics"
    /\ snapshot.state = "complete"
    /\ snapshot.run = run
    /\ \A f \in FamilySet(task) : FittedInRun(f)

\* C12: nothing computed before a family's final test-set evaluation reads
\* rows of the test partition: the parameters of a fitted scaler and every
\* fitted estimator come from rows of the training partition only.
C12_FittedOnTrainingRowsOnly ==
    /\ scaler.state = "fitted" => scaler.rows = "train"
    /\ \A f \in FamilySet(task) : slots[f].state = "fitted" => slots[f].rows = "train"

\* C13: every classifier family fitted in a run gets accuracy, precision,
\* recall, F1 and ROC-AUC on the test partition and a 5-fold cross-validated
\* F1 on the training partition, the regressor RMSE, MAE and R2: once the
\* family blocks are over, these are the metrics computed for each family.
C13_StandardMetrics ==
    pc = "Reporting" =>
        \A f \in FamilySet(task) :
            /\ f \in Classifiers =>
                 metrics[f] = {"accuracy", "precision", "recall", "f1", "roc_auc", "cv_f1"}
            /\ f = "random_forest_regressor" => metrics[f] = {"rmse", "mae", "r2"}

\* the partition sp of n labelled rows with the class counts `counts` is a
\* stratified 80/20 partition: every row is in exactly one part, the test
\* part holds ceil(n / 5) rows, and each part holds its share of the label-1
\* rows to within one row
IsStratifiedPartition(sp, counts, n) ==
    /\ \A c \in LabelClasses :
         sp.train[c] >= 0 /\ sp.test[c] >= 0 /\ sp.train[c] + sp.test[c] = counts[c]
    /\ 5 * SumCounts(sp.test) >= n
    /\ 5 * (SumCounts(sp.test) - 1) < n
    /\ Abs(sp.train[1] * n - counts[1] * SumCounts(sp.train)) < n
    /\ Abs(sp.test[1] * n - counts[1] * SumCounts(sp.test)) < n

\* C14: for every input with at least 10 rows the split is one stratified
\* 80/20 partition of the rows: the split step never raises, and the parts
\* are disjoint, cover the rows, hold 80% / 20% of them and keep the share
\* of label-1 rows, each up to integer rounding.
C14_StratifiedSplit ==
    /\ ~(pc = "Failed" /\ result.kind = "raised" /\ result.at = "Splitting")
    /\ split.state = "split" =>
         IsStratifiedPartition(split, ClassCounts(Labels(task, matrix.value)),
                               RowCount(task, matrix.value))

\* C15: the keys of the exported snapshot, its metadata entry aside, are
\* exactly the model families fitted in the run that exported it, the
\* unsupervised nearest-neighbor index of the recommendation task included.
C15_SnapshotKeysAreFittedFamilies ==
    pc = "Visualizing" /\ snapshot.state = "complete" =>
        snapshot.keys \ {"metadata"} = {f \in FamilySet(task) : FittedInRun(f)}

\* C16: an export replaces the prior snapshot atomically: once a complete
\* snapshot is at the snapshot location, every later step, the steps of a
\* later export and of an export that fails included, leaves a complete
\* snapshot there (the prior one or the new one).
C16_SnapshotReplacedAtomically ==
    [][snapshot.state = "complete" => snapshot'.state = "complete"]_vars

\* C17: the persisted scaler and models of a task come from the same
\* training run: whenever the serving predictor has loaded all its models
\* and the scaler, the scaler is the one fitted in the run that fitted each
\* of the models.
C17_LoadedModelsAndScalerOfOneRun ==
    (\A n \in FileNames(task) : served[n].state = "fitted") =>
        \A n \in FileNames(task) : served[n].run = served["scaler"].run

\* C18: a predict_performance call loads the persisted models and scaler
\* exactly when no model is in memory (once, at most), and never when they
\* are loaded, the objects in memory then staying as they are; a load that
\* meets a file it cannot read ends the call with the exception, without a
\* prediction and without a second attempt; a load that reads every file
\* leaves the persisted objects in memory.
C18_LazyLoadOnce ==
    [][Len(answers') = Len(answers) + 1 =>
         LET a == answers'[Len(answers')]
             unreadable == \E n \in FileNames(task) : files[n].state # "written"
         IN  /\ a.loads = (IF served["logistic_regression"].state = "None" THEN 1 ELSE 0)
             /\ a.loads = 0 => served' = served
             /\ a.loads = 1 /\ unreadable => a.kind = "raised" /\ a.at = "load"
             /\ a.loads = 1 /\ ~unreadable =>
                  \A n \in FileNames(task) : served'[n] = files[n].content]_vars

\* a first call whose load failed, then a call that loaded and predicted
C18_Witness ==
    /\ Len(answers) = 2
    /\ answers[1].kind = "raised"
    /\ answers[1].at = "load"
    /\ answers[1].loads = 1
    /\ answers[2].kind = "prediction"
    /\ answers[2].loads = 1
    /\ \A n \in FileNames(task) : served[n].state = "fitted"

\* C19: two runs of a trainer on the same input give identical results: a
\* run that exports after an earlier run on the same entity collections has
\* the partition and the metrics of that run and writes a snapshot document
\* with the same content.
C19_RepeatedRunIdentical ==
    [][/\ pc = "ExportWriting" /\ pc' = "Visualizing"
       /\ previous.state = "exported" /\ previous.input = data
       => /\ split = previous.split
          /\ metrics = previous.metrics
          /\ Document(snapshot') = previous.document]_vars

----------------------------------------------------------------------------
(* Properties of the similarity ranking *)

CalledSimilarity == call.op = "calculate_similarity_features"

\* the ids of the Student records other than the target that have a Grade
\* row, in input order
Eligible(d, student_id) ==
    Ids(SelectSeq(d.students,
                  LAMBDA s : s.id # student_id /\ GradesOf(d, s.id) # <<>>))

\* the sequences a and b hold the same elements the same number of times
SameBag(a, b) ==
    /\ Len(a) = Len(b)
    /\ \E f \in Perms(Len(a)) : \A i \in 1..Len(a) : a[i] = b[f[i]]

\* C20: for an existing target student calculate_similarity_features
\* returns a result with exactly one entry for each other student that has
\* a Grade row, and none for the target or for a student without Grade rows.
C20_OneEntryPerEligibleStudent ==
    CalledSimilarity /\ HasId(data.students, call.student_id) =>
        /\ ret.ok
        /\ SameBag([i \in 1..Len(ret.value) |-> ret.value[i].student_id],
                   Eligible(data, call.student_id))

\* the position of the student with the given id in the student collection
PositionOf(students, id) ==
    CHOOSE i \in 1..Len(students) : students[i].id = id

\* C21: the sequence calculate_similarity_features returns is ordered by
\* non-increasing similarity_score, and entries with equal similarity_score
\* appear in the order in which their students occur in the input student
\* collection.
C21_SortedWithTiesInInputOrder ==
    CalledSimilarity /\ ret.ok =>
        \A i, j \in 1..Len(ret.value) :
            i < j =>
                /\ ret.value[i].similarity_score >= ret.value[j].similarity_score
                /\ ret.value[i].similarity_score = ret.value[j].similarity_score
                   => PositionOf(data.students, ret.value[i].student_id)
                        < PositionOf(data.students, ret.value[j].student_id)

\* the half of C21 the sort does promise: non-increasing scores
C21_NonIncreasingScores ==
    CalledSimilarity /\ ret.ok =>
        \A i \in 1..(Len(ret.value) - 1) :
            ret.value[i].similarity_score >= ret.value[i + 1].similarity_score

\* a returned ranking in which two entries score the same
C21_TieReturned ==
    /\ CalledSimilarity /\ ret.ok
    /\ \E i, j \in 1..Len(ret.value) :
          i < j /\ ret.value[i].similarity_score = ret.value[j].similarity_score

\* the score of the claim for the students a and b, in hundredths:
\* 0.4*(5 - |gpa_a - gpa_b|) + 0.3*[major equal] + 0.3*[has_disability equal]
PairScore(a, b) ==
    40 * 5
    - 4 * (IF a.current_gpa >= b.current_gpa
           THEN a.current_gpa - b.current_gpa
           ELSE b.current_gpa - a.current_gpa)
    + 30 * (IF a.major = b.major THEN 1 ELSE 0)
    + 30 * (IF a.has_disability = b.has_disability THEN 1 ELSE 0)

\* C22: the pairwise similarity score is symmetric: the score
\* calculate_similarity_features gives student B for target A equals the
\* score it computes for A with B as target, and both are
\* 0.4*(5 - |gpa_A - gpa_B|) + 0.3*[major equal] + 0.3*[has_disability equal].
C22_ScoreSymmetric ==
    CalledSimilarity /\ ret.ok =>
        \A i \in 1..Len(ret.value) :
            LET A == WithId(data.students, call.student_id)
                B == WithId(data.students, ret.value[i].student_id)
            IN  /\ ret.value[i].similarity_score = SimilarityScore(B, A)
                /\ ret.value[i].similarity_score = PairScore(A, B)
                /\ PairScore(A, B) = PairScore(B, A)

\* a ranking that holds a student with the target's GPA, major and
\* disability flag and a student with a higher GPA than the target
C22_Witness ==
    /\ CalledSimilarity /\ ret.ok
    /\ LET A == WithId(data.students, call.student_id)
       IN  /\ \E i \in 1..Len(ret.value) :
                LET B == WithId(data.students, ret.value[i].student_id)
                IN  /\ B.current_gpa = A.current_gpa
                    /\ B.major = A.major
                    /\ B.has_disability = A.has_disability
           /\ \E i \in 1..Len(ret.value) :
                WithId(data.students, ret.value[i].student_id).current_gpa
                    > A.current_gpa

----------------------------------------------------------------------------
(* Properties of the exported recommendation document *)

CalledExport == call.op = "_export_model_parameters"

\* C24: in the exported recommendation snapshot the decision-tree rule dump
\* is a prefix of the full rule text and never longer than the budget of
\* 2000 characters, whatever the size of the fitted tree, and every entry
\* holds only primitive, list and nested-mapping values, never a
\* fitted-model object.
C24_RuleDumpBoundedAndPlainValues ==
    CalledExport =>
        /\ ret.ok
        /\ LET dump == ret.value.decision_tree.tree_rules.text
           IN  /\ Len(dump) <= 2000
               /\ Len(dump) <= Len(data.tree_rules)
               /\ dump = SubSeq(data.tree_rules, 1, Len(dump))
        /\ \A e \in DOMAIN ret.value : \A k \in DOMAIN ret.value[e] :
              ret.value[e][k].kind \in {"int", "float", "str", "list"}

\* an export of a rule text longer than the budget
C24_Witness ==
    /\ CalledExport /\ ret.ok
    /\ Len(data.tree_rules) > 2000
    /\ Len(ret.value.decision_tree.tree_rules.text) = 2000

----------------------------------------------------------------------------
(* Properties of normalize_features *)

CalledNormalize == call.op = "normalize_features"

\* C23: normalize_features returns both the standardized matrix and the
\* fitted scaling parameters (per-column mean and scale) used to produce
\* it, and it leaves the caller's input matrix unchanged.
C23_ReturnsParametersAndKeepsInput ==
    [][CalledNormalize' /\ ret'.ok =>
          /\ data' = data
          /\ DOMAIN ret'.value = {"df", "scaler"}]_vars

\* a frame with differing values has been normalized
C23_Normalized ==
    /\ CalledNormalize /\ ret.ok
    /\ \E i \in 1..Len(ret.value.df) : ret.value.df[i].current_gpa.sign = 1

----------------------------------------------------------------------------
(* Properties of the predictor's slots between calls, and of the exported
   sample count *)

\* C25: between the calls made on one PerformancePredictor, also after a
\* train_models call that failed partway, logistic_model being set implies
\* that random_forest_classifier, random_forest_regressor and a fitted
\* scaler are set too (so that predict_performance, which loads only when
\* logistic_model is None, never meets an unset slot or an unfitted scaler).
C25_LogisticSetImpliesAllSet ==
    task = "performance" /\ pc \in {"Idle"} \cup Terminal
    /\ slots["logistic_regression"].state # "None"
    => /\ slots["logistic_regression"].state = "fitted"
       /\ slots["random_forest_classifier"].state = "fitted"
       /\ slots["random_forest_regressor"].state = "fitted"
       /\ scaler.state = "fitted"

\* C26: the metadata.training_samples value written into the performance
\* snapshot equals the number of feature-matrix rows the run trained on,
\* the samples_used value of the returned result, for every run that
\* exports.
C26_TrainingSamplesIsRowCount ==
    /\ task = "performance" /\ pc = "Done" /\ result.kind = "metrics"
    /\ snapshot.state = "complete" /\ snapshot.run = run
    => snapshot.training_samples = result.samples_used

\* C27: when the target student exists but no other student has a Grade
\* row, calculate_similarity_features returns an empty sequence and raises
\* no error.
C27_NoEligibleStudentGivesEmptyRanking ==
    /\ CalledSimilarity /\ HasId(data.students, call.student_id)
    /\ Eligible(data, call.student_id) = <<>>
    => ret.ok /\ ret.value = <<>>

====
